---- MODULE Spec2Model ----
(***************************************************************************)
(* Model of max_requests._implementation: a Twisted WSGI server that       *)
(* serves a bounded number of requests, stops accepting, spawns a          *)
(* successor that adopts its listening sockets, drains and stops.          *)
(*                                                                         *)
(* A process is a record (the fields of its MaximumRequestsResource, of    *)
(* its listener service and of its reactor); the methods of the source are *)
(* operators from such a record to the record after the call, composed in  *)
(* the order the source calls them.                                        *)
(***************************************************************************)
EXTENDS Integers, Sequences, FiniteSets, TLC

\* ---------------------------------------------------------------- bounds
MaxProcs == 2        \* processes in the succession chain
MaxConns == 2        \* client connections open at one time
MaxQuota == 2        \* largest configured --max-requests
MaxRequests == 2     \* requests one process counts before the model stops it
MaxSubscribers == 2  \* deferreds one resource hands out through notifyFinish
MaxRecords == 2      \* records of a collection that is encoded
MaxDescriptionLen == 1  \* characters of a description that is encoded
MaxValueLen == 4     \* characters of an environment value that is decoded
MaxDescriptions == 2 \* descriptions a listener service is built for

Procs == 1..MaxProcs
Conns == 1..MaxConns

\* ------------------------------------------------- strings and characters
\* A string is a sequence of one-character strings.  "US" and "RS" stand for
\* the control characters \x1f and \x1e.
unitSeparator == "US"
recordSeparator == "RS"

Digits == <<"0", "1", "2", "3", "4", "5", "6", "7", "8", "9">>

IsDigit(c) == \E d \in 1..10 : Digits[d] = c

DigitVal(c) == (CHOOSE d \in 1..10 : Digits[d] = c) - 1

\* str(fileno): the decimal digits of an integer, after its sign
RECURSIVE StrDigits(_)
StrDigits(n) == IF n < 10 THEN <<Digits[n + 1]>>
                ELSE StrDigits(n \div 10) \o <<Digits[(n % 10) + 1]>>

Str(n) == IF n < 0 THEN <<"-">> \o StrDigits(0 - n) ELSE StrDigits(n)

\* int(s) strips white space, takes one sign, then decimal digits with
\* single underscores between them.  The control characters \x1c..\x1f are
\* not white space to int().
Whitespace == {" "}

RECURSIVE StripLeft(_)
StripLeft(s) == IF Len(s) > 0 /\ Head(s) \in Whitespace
                THEN StripLeft(Tail(s)) ELSE s

RECURSIVE StripRight(_)
StripRight(s) == IF Len(s) > 0 /\ s[Len(s)] \in Whitespace
                 THEN StripRight(SubSeq(s, 1, Len(s) - 1)) ELSE s

Strip(s) == StripRight(StripLeft(s))

Signed(s) == Len(s) > 0 /\ Head(s) \in {"+", "-"}

Unsigned(s) == IF Signed(s) THEN Tail(s) ELSE s

NumeralValid(d) ==
    /\ Len(d) > 0
    /\ IsDigit(d[1])
    /\ IsDigit(d[Len(d)])
    /\ \A i \in 1..Len(d) :
          \/ IsDigit(d[i])
          \/ d[i] = "_" /\ IsDigit(d[i - 1]) /\ IsDigit(d[i + 1])

RECURSIVE NumeralOf(_)
NumeralOf(d) ==
    IF Len(d) = 0 THEN 0
    ELSE IF d[Len(d)] = "_" THEN NumeralOf(SubSeq(d, 1, Len(d) - 1))
    ELSE NumeralOf(SubSeq(d, 1, Len(d) - 1)) * 10 + DigitVal(d[Len(d)])

\* int(s) does not raise ValueError
IntValid(s) == NumeralValid(Unsigned(Strip(s)))

\* int(s)
IntOf(s) ==
    LET t == Strip(s) IN
    IF Signed(t) /\ Head(t) = "-" THEN 0 - NumeralOf(Tail(t))
    ELSE NumeralOf(Unsigned(t))

\* sep.join(parts)
RECURSIVE Join(_, _)
Join(sep, parts) ==
    IF Len(parts) = 0 THEN <<>>
    ELSE IF Len(parts) = 1 THEN parts[1]
    ELSE parts[1] \o <<sep>> \o Join(sep, Tail(parts))

\* index of the first occurrence of sep in s, 0 when there is none
FirstIndex(s, sep) ==
    IF \E i \in 1..Len(s) : s[i] = sep
    THEN CHOOSE i \in 1..Len(s) : s[i] = sep /\ \A j \in 1..(i - 1) : s[j] # sep
    ELSE 0

\* s.split(sep): always at least one part
RECURSIVE Split(_, _)
Split(s, sep) ==
    LET i == FirstIndex(s, sep) IN
    IF i = 0 THEN <<s>>
    ELSE <<SubSeq(s, 1, i - 1)>> \o Split(SubSeq(s, i + 1, Len(s)), sep)

\* s.partition(sep): (head, sep, tail), or (s, "", "") when sep is absent
Partition(s, sep) ==
    LET i == FirstIndex(s, sep) IN
    IF i = 0 THEN [head |-> s, found |-> FALSE, tail |-> <<>>]
    ELSE [head |-> SubSeq(s, 1, i - 1), found |-> TRUE,
          tail |-> SubSeq(s, i + 1, Len(s))]

\* ------------------------------------------------------ ListenersCollection
\* toEnvironment as it would be with one separator for records and fields
toEnvironmentOneSeparator(pairs) ==
    Join(unitSeparator,
         [i \in 1..Len(pairs) |->
            pairs[i].description \o <<unitSeparator>> \o Str(pairs[i].fileno)])

\* ListenersCollection.toEnvironment: the value stored under
\* _TWISTED_ADOPTABLE_LISTENERS, for a sequence of [description, fileno]
toEnvironment(pairs) ==
    Join(recordSeparator,
         [i \in 1..Len(pairs) |->
            pairs[i].description \o <<unitSeparator>> \o Str(pairs[i].fileno)])

\* ListenersCollection.fromEnvironment: env is [set, value]; the result is
\* [ok, pairs], ok = FALSE when int() raises ValueError
fromEnvironment(env) ==
    IF env.set /\ Len(env.value) > 0
    THEN LET records == Split(env.value, recordSeparator)
             parts == [i \in 1..Len(records) |->
                          Partition(records[i], unitSeparator)]
         IN IF \A i \in 1..Len(parts) : IntValid(parts[i].tail)
            THEN [ok |-> TRUE,
                  pairs |-> [i \in 1..Len(parts) |->
                               [description |-> parts[i].head,
                                fileno |-> IntOf(parts[i].tail)]]]
            ELSE [ok |-> FALSE, pairs |-> <<>>]
    ELSE [ok |-> TRUE, pairs |-> <<>>]

\* ----------------------------------------------------------- configuration
\* Listener descriptions the --listen option is given ("tcp:80", "tcp6:80",
\* "unix:s", "ssl:80"), as strings
TcpDescription == <<"t", "c", "p", ":", "8", "0">>
Tcp6Description == <<"t", "c", "p", "6", ":", "8", "0">>
UnixDescription == <<"u", "n", "i", "x", ":", "s">>
SslDescription == <<"s", "s", "l", ":", "8", "0">>

ListenChoices == {TcpDescription, SslDescription}

VARIABLES
    maximumRequests,  \* config['max-requests'], the same in every process
    listen,           \* config['listen'], the same in every process
    proc,             \* proc[p]: the state of process p of the chain
    conn,             \* conn[c]: a client connection, its owner and state
    codec,            \* a ListenersCollection being encoded and decoded
    svc               \* a LivelyListenersService whose endpoints are starting

vars == <<maximumRequests, listen, proc, conn, codec, svc>>

\* ------------------------------------------------------------ process state
NoEnvironment == [set |-> FALSE, value |-> <<>>]

\* A process that has not been launched.  requests, inFlight, stopping and
\* notifications are the fields MaximumRequestsResource.__init__ sets;
\* descriptions, listeners and released are the listener service's;
\* deferreds holds every Deferred notifyFinish returned, with its callback
\* and how often it fired.  The remaining fields record what the process
\* did: the requests forwarded to the WSGI resource, and the state in which
\* stopAccepting, respawn, subprocess.Popen and reactor.stop were called.
\* serviceRunning is the listener service's running flag, cloexec the
\* descriptors of the process that are flagged close-on-exec, signalled
\* whether the operator has asked the process to stop, exitCode the status
\* the process exited with (-1 before that).
NewProcess ==
    [status |-> "unborn", env |-> NoEnvironment, kind |-> "none",
     descriptions |-> <<>>, listeners |-> <<>>, released |-> FALSE,
     serviceRunning |-> FALSE, cloexec |-> {}, signalled |-> FALSE,
     exitCode |-> 0 - 1,
     requests |-> 0, inFlight |-> 0, stopping |-> FALSE,
     notifications |-> <<>>, deferreds |-> <<>>,
     forwarded |-> 0, stopAcceptingCalls |-> <<>>, respawns |-> <<>>,
     popen |-> <<>>, reactorStops |-> <<>>]

Reading(s) == \E i \in 1..Len(s.listeners) : s.listeners[i].reading

\* ---------------------------------------------------------- listener service
\* stopAccepting as it would be if it forgot listener.stopReading()
stopAcceptingKeepReading(s) ==
    [s EXCEPT !.released = TRUE,
              !.stopAcceptingCalls = Append(@, s.requests)]

\* LivelyListenersService.stopAccepting / AdoptedListenersService.stopAccepting
stopAccepting(s) ==
    [s EXCEPT !.listeners = [i \in 1..Len(s.listeners) |->
                                [s.listeners[i] EXCEPT !.reading = FALSE]],
              !.released = TRUE,
              !.stopAcceptingCalls = Append(@, s.requests)]

\* toCollection: zip(descriptions, listeners), then the assertion
toCollection(s) ==
    LET n == IF Len(s.descriptions) < Len(s.listeners)
             THEN Len(s.descriptions) ELSE Len(s.listeners)
        pairs == [i \in 1..n |-> [description |-> s.descriptions[i],
                                  fileno |-> s.listeners[i].fd]]
    IN [ok |-> Len(pairs) = Len(s.descriptions), pairs |-> pairs]

\* LivelyListenersService.stopService / AdoptedListenersService.stopService:
\* service.Service.stopService clears the running flag and does nothing else
stopService(s) ==
    IF ~s.released THEN [s EXCEPT !.serviceRunning = FALSE] ELSE s

\* The reactor's shutdown loses every descriptor it still reads: a listener
\* that reads is closed by the reactor
disconnectAll(s) ==
    [s EXCEPT !.listeners =
        [i \in 1..Len(s.listeners) |->
            IF s.listeners[i].reading
            THEN [s.listeners[i] EXCEPT !.reading = FALSE,
                                        !.closedBy = "reactor"]
            ELSE s.listeners[i]]]

\* ListenersCollection.__iter__, run to its end: every descriptor of the
\* collection loses its close-on-exec flag
iterate(s, pairs) ==
    [s EXCEPT !.cloexec = @ \ {pairs[i].fileno : i \in 1..Len(pairs)}]

\* ------------------------------------------------------------------ respawn
\* respawn as it would be if it read the pairs of the collection without
\* iterating the collection
respawnNoIteration(s, launched) ==
    LET collection == toCollection(s)
        called == [s EXCEPT !.respawns =
                      Append(@, [inFlight |-> s.inFlight,
                                 stopping |-> s.stopping,
                                 released |-> s.released,
                                 reading |-> Reading(s),
                                 stopAcceptingCalls |-> Len(s.stopAcceptingCalls),
                                 reactorStops |-> Len(s.reactorStops)])]
    IN IF collection.ok
       THEN [called EXCEPT !.popen =
                Append(@, [env |-> toEnvironment(collection.pairs),
                           pass_fds |-> [i \in 1..Len(collection.pairs) |->
                                            collection.pairs[i].fileno],
                           cloexec |-> called.cloexec,
                           launched |-> launched])]
       ELSE called

\* makeService.respawn: capture the listeners, encode them (toEnvironment
\* iterates the collection), list the descriptors to pass (a second
\* iteration), launch the successor.  launched is the outcome of
\* subprocess.Popen; an exception (the assertion of toCollection, or
\* Popen's OSError) ends the callback and is kept by the Deferred that ran
\* it.
respawn(s, launched) ==
    LET collection == toCollection(s)
        called == [s EXCEPT !.respawns =
                      Append(@, [inFlight |-> s.inFlight,
                                 stopping |-> s.stopping,
                                 released |-> s.released,
                                 reading |-> Reading(s),
                                 stopAcceptingCalls |-> Len(s.stopAcceptingCalls),
                                 reactorStops |-> Len(s.reactorStops)])]
        iterated == iterate(iterate(called, collection.pairs),
                            collection.pairs)
    IN IF collection.ok
       THEN [iterated EXCEPT !.popen =
                Append(@, [env |-> toEnvironment(collection.pairs),
                           pass_fds |-> [i \in 1..Len(collection.pairs) |->
                                            collection.pairs[i].fileno],
                           cloexec |-> iterated.cloexec,
                           launched |-> launched])]
       ELSE called

\* Deferred.callback: the deferred's callback runs
runCallback(s, cb, launched) ==
    IF cb = "respawn" THEN respawn(s, launched) ELSE s

\* -------------------------------------------------- MaximumRequestsResource
\* notifyFinish as it would be without the test of _stopping
notifyFinishAlwaysPending(s, cb, launched) ==
    [s EXCEPT !.deferreds =
                  Append(@, [cb |-> cb, fired |-> 0, late |-> s.stopping]),
              !.notifications = Append(@, Len(s.deferreds) + 1)]

\* notifyFinish().addCallback(cb)
notifyFinish(s, cb, launched) ==
    IF s.stopping
    THEN runCallback([s EXCEPT !.deferreds =
                         Append(@, [cb |-> cb, fired |-> 1, late |-> TRUE])],
                     cb, launched)
    ELSE [s EXCEPT !.deferreds =
                       Append(@, [cb |-> cb, fired |-> 0, late |-> FALSE]),
                   !.notifications = Append(@, Len(s.deferreds) + 1)]

\* _finishing as it would be if it fired the deferreds of the list without
\* removing them
RECURSIVE fireFrom(_, _, _)
fireFrom(s, i, launched) ==
    IF i > Len(s.notifications) THEN s
    ELSE LET d == s.notifications[i] IN
         fireFrom(runCallback([s EXCEPT !.deferreds[d].fired = @ + 1],
                              s.deferreds[d].cb, launched),
                  i + 1, launched)

finishingKeep(s, launched) == fireFrom(s, 1, launched)

\* _finishing: while self._notifications: pop(0).callback(None)
RECURSIVE finishing(_, _)
finishing(s, launched) ==
    IF Len(s.notifications) = 0 THEN s
    ELSE LET d == Head(s.notifications)
             popped == [s EXCEPT !.notifications = Tail(@),
                                 !.deferreds[d].fired = @ + 1]
         IN finishing(runCallback(popped, s.deferreds[d].cb, launched),
                      launched)

\* _noPendingRequests as it would be without the test of _stopping
noPendingRequestsUnguarded(s) ==
    [s EXCEPT !.reactorStops =
         Append(@, [inFlight |-> s.inFlight,
                    stopping |-> s.stopping,
                    respawns |-> Len(s.respawns),
                    popen |-> Len(s.popen)])]

\* _noPendingRequests
noPendingRequests(s) ==
    IF s.stopping
    THEN [s EXCEPT !.reactorStops =
             Append(@, [inFlight |-> s.inFlight,
                        stopping |-> s.stopping,
                        respawns |-> Len(s.respawns),
                        popen |-> Len(s.popen)])]
    ELSE s

\* _decrementInFlight
\* _decrementInFlight as it would be if the drained resource started over
decrementInFlightStartingOver(s) ==
    LET t == [s EXCEPT !.inFlight = @ - 1] IN
    IF t.inFlight = 0
    THEN [noPendingRequests(t) EXCEPT !.stopping = FALSE]
    ELSE t

\* _decrementInFlight as it would be without the call of _noPendingRequests
decrementInFlightOnly(s) == [s EXCEPT !.inFlight = @ - 1]

decrementInFlight(s) ==
    LET t == [s EXCEPT !.inFlight = @ - 1] IN
    IF t.inFlight = 0 THEN noPendingRequests(t) ELSE t

\* The request's deferred as it would be with addCallback in place of addBoth
requestFinishedOnSuccess(s, outcome) ==
    IF outcome = "success" THEN decrementInFlight(s) ELSE s

\* request.notifyFinish().addBoth(self._decrementInFlight): the request's
\* deferred fires with a result (finish) or a failure (connection lost,
\* also after an application error); addBoth runs the function on both
requestFinished(s, outcome) == decrementInFlight(s)

\* self.original.render(request): the WSGI resource takes the request
originalRender(s) == [s EXCEPT !.forwarded = @ + 1]

\* The quota test as it would be with "> self._maximumRequests"
quotaReachedStrict(s) == s.requests > maximumRequests

\* the quota test of render
quotaReached(s) == s.requests > (maximumRequests - 1)

\* render as it would be with _finishing() before self._stopping = True
renderNotifyBeforeStopping(s, launched) ==
    LET counted == [s EXCEPT !.inFlight = @ + 1, !.requests = @ + 1] IN
    IF quotaReached(counted)
    THEN originalRender(
            [finishing(stopAccepting(counted), launched)
                EXCEPT !.stopping = TRUE])
    ELSE originalRender(counted)

\* render as it would be with _finishing() before self.stopAccepting()
renderCaptureFirst(s, launched) ==
    LET counted == [s EXCEPT !.inFlight = @ + 1, !.requests = @ + 1] IN
    IF quotaReached(counted)
    THEN originalRender(
            stopAccepting(finishing([counted EXCEPT !.stopping = TRUE],
                                    launched)))
    ELSE originalRender(counted)

\* render as it would be if the request that reaches the quota were refused
renderRefusing(s, launched) ==
    LET counted == [s EXCEPT !.inFlight = @ + 1, !.requests = @ + 1] IN
    IF quotaReached(counted)
    THEN finishing([stopAccepting(counted) EXCEPT !.stopping = TRUE], launched)
    ELSE originalRender(counted)

\* render
render(s, launched) ==
    LET counted == [s EXCEPT !.inFlight = @ + 1, !.requests = @ + 1] IN
    IF quotaReached(counted)
    THEN originalRender(
            finishing([stopAccepting(counted) EXCEPT !.stopping = TRUE],
                      launched))
    ELSE originalRender(counted)

\* ------------------------------------------------------------------ startup
\* The address family AdoptedListenersService.startService derives from the
\* endpoint serverFromString builds: the endpoint type is the text before
\* the first colon
Classify(description) ==
    LET name == Partition(description, ":").head IN
    IF name = <<"t", "c", "p">> THEN "AF_INET"
    ELSE IF name = <<"t", "c", "p", "6">> THEN "AF_INET6"
    ELSE IF name = <<"u", "n", "i", "x">> THEN "AF_UNIX"
    ELSE "ValueError"

\* The descriptors a process has open: the standard streams, the descriptors
\* it inherited through pass_fds and the sockets of its listeners
StandardStreams == {0, 1, 2}

InheritedFds(s) ==
    LET collection == fromEnvironment(s.env) IN
    {collection.pairs[i].fileno : i \in 1..Len(collection.pairs)}

OpenFds(s) ==
    StandardStreams \cup InheritedFds(s)
        \cup {s.listeners[i].fd : i \in 1..Len(s.listeners)}

\* The descriptor of a new socket: the lowest one that is not open
RECURSIVE LowestFree(_, _)
LowestFree(open, n) == IF n \in open THEN LowestFree(open, n + 1) ELSE n

NewFd(s) == LowestFree(OpenFds(s), 0)

\* AdoptedListenersService.startService: adopt each descriptor in turn, as
\* the iteration of the collection yields it with its close-on-exec flag
\* cleared; adoptStreamPort wraps a duplicate of the descriptor, flagged
\* close-on-exec as every new socket is, and starts reading on it.  The
\* service does not call Service.startService: its running flag stays unset.
RECURSIVE adoptedStartService(_, _)
adoptedStartService(s, pairs) ==
    IF Len(pairs) = 0 THEN s
    ELSE LET family == Classify(pairs[1].description) IN
         IF family = "ValueError"
         THEN [s EXCEPT !.status = "failed"]
         ELSE adoptedStartService(
                 [s EXCEPT !.descriptions = Append(@, pairs[1].description),
                           !.cloexec = (@ \ {pairs[1].fileno}) \cup {NewFd(s)},
                           !.listeners = Append(@, [fd |-> NewFd(s),
                                                    family |-> family,
                                                    origin |-> "adopted",
                                                    description |->
                                                        pairs[1].description,
                                                    closedBy |-> "none",
                                                    reading |-> TRUE])],
                 Tail(pairs))

\* LivelyListenersService.__init__ and the start of its endpoint services:
\* one listener per description, bound and reading in turn, or a failed
\* bind
RECURSIVE livelyListen(_, _)
livelyListen(s, descriptions) ==
    IF Len(descriptions) = 0 THEN s
    ELSE livelyListen(
            [s EXCEPT !.cloexec = @ \cup {NewFd(s)},
                      !.listeners =
                Append(@, [fd |-> NewFd(s),
                           family |-> Classify(Head(descriptions)),
                           origin |-> "bound",
                           description |-> Head(descriptions),
                           closedBy |-> "none",
                           reading |-> TRUE])],
            Tail(descriptions))

livelyStartService(s, descriptions, bound) ==
    IF bound
    THEN livelyListen([s EXCEPT !.descriptions = descriptions,
                                !.serviceRunning = TRUE], descriptions)
    ELSE [s EXCEPT !.descriptions = descriptions, !.status = "failed"]

\* makeService as it would be without root.notifyFinish().addCallback(respawn)
makeServiceNoRespawn(s, bound) ==
    LET collection == fromEnvironment(s.env)
        root == iterate([s EXCEPT !.status = "running"], collection.pairs)
    IN IF ~collection.ok
       THEN [s EXCEPT !.status = "failed"]
       ELSE IF Len(collection.pairs) = 0
       THEN livelyStartService([root EXCEPT !.kind = "lively"],
                               <<listen>>, bound)
       ELSE adoptedStartService([root EXCEPT !.kind = "adopted"],
                                collection.pairs)

\* makeService as it would be if it adopted whenever the variable is set
makeServiceAdoptIfSet(s, bound) ==
    LET collection == fromEnvironment(s.env)
        root == iterate([s EXCEPT !.status = "running"], collection.pairs)
    IN IF ~collection.ok
       THEN [s EXCEPT !.status = "failed"]
       ELSE IF ~s.env.set
       THEN livelyStartService(
                notifyFinish([root EXCEPT !.kind = "lively"], "respawn", FALSE),
                <<listen>>, bound)
       ELSE adoptedStartService(
                notifyFinish([root EXCEPT !.kind = "adopted"], "respawn", FALSE),
                collection.pairs)

\* makeService, then the start of the services it returns.  s is the
\* launched process (its env is set), bound whether binding fresh
\* listeners succeeds.  list(collection) iterates the decoded collection.
makeService(s, bound) ==
    LET collection == fromEnvironment(s.env)
        root == iterate([s EXCEPT !.status = "running"], collection.pairs)
    IN IF ~collection.ok
       THEN [s EXCEPT !.status = "failed"]
       ELSE IF Len(collection.pairs) = 0
       THEN livelyStartService(
                notifyFinish([root EXCEPT !.kind = "lively"], "respawn", FALSE),
                <<listen>>, bound)
       ELSE adoptedStartService(
                notifyFinish([root EXCEPT !.kind = "adopted"], "respawn", FALSE),
                collection.pairs)

\* ---------------------------------------------------------------- the system
Alive(p) == proc[p].status = "running"

Accepting(p) == Alive(p) /\ Reading(proc[p])

InFlightConns(p) == {c \in Conns : conn[c] = [owner |-> p, st |-> "busy"]}

NoConn == [owner |-> 0, st |-> "none"]

\* The first process has been launched by the operator, without the
\* handoff variable or with an empty one; nothing else exists yet.
NoCodec ==
    [step |-> "none", origin |-> "none", collection |-> <<>>,
     env |-> NoEnvironment, decoded |-> [ok |-> TRUE, pairs |-> <<>>]]

\* No listener service under study: service is the state of the service,
\* configured the descriptions it was built for, started whether
\* startService ran, pending the endpoints whose listen has not fired yet,
\* collection the outcome of toCollection at the handoff.
NoCollection == [called |-> FALSE, ok |-> TRUE, pairs |-> <<>>]

NoService == [service |-> NewProcess, configured |-> <<>>,
              started |-> FALSE, pending |-> {}, collection |-> NoCollection]

Init ==
    /\ codec = NoCodec
    /\ svc = NoService
    /\ maximumRequests \in 1..MaxQuota
    /\ listen \in ListenChoices
    /\ \E env \in {NoEnvironment, [set |-> TRUE, value |-> <<>>]} :
          proc = [p \in Procs |->
                    IF p = 1
                    THEN [NewProcess EXCEPT !.status = "launched", !.env = env]
                    ELSE NewProcess]
    /\ conn = [c \in Conns |-> NoConn]

\* A launched process builds its services and starts them
Start(p) ==
    /\ proc[p].status = "launched"
    /\ \E bound \in BOOLEAN :
          proc' = [proc EXCEPT ![p] = makeService(proc[p], bound)]
    /\ UNCHANGED <<codec, svc, maximumRequests, listen, conn>>

\* The reactor accepts a connection on a listener that is reading; the
\* connection takes the first free slot
Accept(p, c) ==
    /\ Accepting(p)
    /\ conn[c] = NoConn
    /\ \A d \in 1..(c - 1) : conn[d] # NoConn
    /\ conn' = [conn EXCEPT ![c] = [owner |-> p, st |-> "idle"]]
    /\ UNCHANGED <<codec, svc, maximumRequests, listen, proc>>

\* A client closes a connection that has no request in progress
ClientClose(p, c) ==
    /\ Alive(p)
    /\ conn[c] = [owner |-> p, st |-> "idle"]
    /\ conn' = [conn EXCEPT ![c] = NoConn]
    /\ UNCHANGED <<codec, svc, maximumRequests, listen, proc>>

\* The processes that can still be launched
Unborn == {q \in Procs : proc[q].status = "unborn"}

\* The process table after process p went from state old to state new: a
\* successful subprocess.Popen in between launched the next process with
\* the environment it was given
WithSuccessor(p, old, new) ==
    IF Len(new.popen) > Len(old.popen) /\ new.popen[Len(new.popen)].launched
    THEN LET q == CHOOSE q \in Unborn : \A r \in Unborn : q <= r IN
         [proc EXCEPT ![p] = new,
                      ![q] = [NewProcess EXCEPT
                                !.status = "launched",
                                !.env = [set |-> TRUE,
                                         value |-> new.popen[Len(new.popen)].env]]]
    ELSE [proc EXCEPT ![p] = new]

\* A request arrives on an open connection and the site renders it
Render(p, c) ==
    /\ Alive(p)
    /\ conn[c] = [owner |-> p, st |-> "idle"]
    /\ proc[p].requests < MaxRequests
    /\ \E launched \in BOOLEAN :
          LET new == render(proc[p], launched) IN
          /\ (Len(new.popen) > Len(proc[p].popen) /\ launched) => Unborn # {}
          /\ proc' = WithSuccessor(p, proc[p], new)
    /\ conn' = [conn EXCEPT ![c].st = "busy"]
    /\ UNCHANGED <<codec, svc, maximumRequests, listen>>

\* A request finishes: the response is complete and the connection stays
\* open, or the connection is lost (the client went away, or the
\* application failed after the response had started)
Finish(p, c, outcome) ==
    /\ Alive(p)
    /\ conn[c] = [owner |-> p, st |-> "busy"]
    /\ proc' = [proc EXCEPT ![p] = requestFinished(proc[p], outcome)]
    /\ conn' = [conn EXCEPT ![c] = IF outcome = "success"
                                   THEN [owner |-> p, st |-> "idle"]
                                   ELSE NoConn]
    /\ UNCHANGED <<codec, svc, maximumRequests, listen>>

\* Some other component asks the resource to be notified
Subscribe(p) ==
    /\ Alive(p)
    /\ Len(proc[p].deferreds) < MaxSubscribers
    /\ proc' = [proc EXCEPT ![p] = notifyFinish(proc[p], "none", FALSE)]
    /\ UNCHANGED <<codec, svc, maximumRequests, listen, conn>>

\* The operator stops the process (SIGTERM, SIGINT): the reactor is asked
\* to stop
Signal(p) ==
    /\ Alive(p)
    /\ ~proc[p].signalled
    /\ proc' = [proc EXCEPT ![p].signalled = TRUE]
    /\ UNCHANGED <<codec, svc, maximumRequests, listen, conn>>

\* The reactor, stopped, shuts down: the services are stopped, every
\* connection of the process is lost, which finishes the requests still in
\* progress, and the process ends with status 0
RECURSIVE loseConnections(_, _)
loseConnections(s, n) ==
    IF n = 0 THEN s
    ELSE loseConnections(requestFinished(s, "disconnect"), n - 1)

Exit(p) ==
    /\ Alive(p)
    /\ Len(proc[p].reactorStops) > 0 \/ proc[p].signalled
    /\ proc' = [proc EXCEPT ![p] =
                  [loseConnections(disconnectAll(stopService(proc[p])),
                                   Cardinality(InFlightConns(p)))
                     EXCEPT !.status = "exited", !.exitCode = 0]]
    /\ conn' = [c \in Conns |-> IF conn[c].owner = p THEN NoConn ELSE conn[c]]
    /\ UNCHANGED <<codec, svc, maximumRequests, listen>>

\* The chain of processes as makeService builds them: respawn is the only
\* subscriber of notifyFinish
Next ==
    \/ \E p \in Procs : Start(p)
    \/ \E p \in Procs, c \in Conns : Accept(p, c)
    \/ \E p \in Procs, c \in Conns : ClientClose(p, c)
    \/ \E p \in Procs, c \in Conns : Render(p, c)
    \/ \E p \in Procs, c \in Conns :
          \E outcome \in {"success", "disconnect", "error"} :
             Finish(p, c, outcome)
    \/ \E p \in Procs : Exit(p)

Spec == Init /\ [][Next]_vars

\* The first process alone, with further subscribers of its resource's
\* notifyFinish; a successor it launches is never started
NextResource ==
    \/ Start(1)
    \/ \E c \in Conns : Accept(1, c)
    \/ \E c \in Conns : ClientClose(1, c)
    \/ \E c \in Conns : Render(1, c)
    \/ \E c \in Conns :
          \E outcome \in {"success", "disconnect", "error"} :
             Finish(1, c, outcome)
    \/ Subscribe(1)
    \/ Exit(1)

SpecResource == Init /\ [][NextResource]_vars

\* The first process alone, as makeService builds it.  A request in
\* progress ends: the reactor keeps running the WSGI application's threads
\* and watching the connection until the response is complete or the
\* connection is lost, which is weak fairness of Finish on each connection.
NextDrain ==
    \/ Start(1)
    \/ \E c \in Conns : Accept(1, c)
    \/ \E c \in Conns : ClientClose(1, c)
    \/ \E c \in Conns : Render(1, c)
    \/ \E c \in Conns :
          \E outcome \in {"success", "disconnect", "error"} :
             Finish(1, c, outcome)
    \/ Exit(1)

RequestsFinish ==
    \A c \in Conns :
        WF_vars(\E outcome \in {"success", "disconnect", "error"} :
                   Finish(1, c, outcome))

SpecDrain == Init /\ [][NextDrain]_vars /\ RequestsFinish

\* The first process alone, which the operator may stop at any time
NextService ==
    \/ Start(1)
    \/ \E c \in Conns : Accept(1, c)
    \/ \E c \in Conns : ClientClose(1, c)
    \/ \E c \in Conns : Render(1, c)
    \/ \E c \in Conns :
          \E outcome \in {"success", "disconnect", "error"} :
             Finish(1, c, outcome)
    \/ Signal(1)
    \/ Exit(1)

SpecService == Init /\ [][NextService]_vars

\* ------------------------------------------------- encoding and decoding
\* The strings of at most n characters of an alphabet
StringsUpTo(alphabet, n) == UNION {[1..k -> alphabet] : k \in 0..n}

DescriptionAlphabet == {"a", "3"}
ValueAlphabet == {"a", "3", "US", "RS", " ", "-"}
FilenoChoices == {3, 12}

CodecRecords ==
    [description : StringsUpTo(DescriptionAlphabet, MaxDescriptionLen),
     fileno : FilenoChoices]

CodecCollections == UNION {[1..k -> CodecRecords] : k \in 0..MaxRecords}

CodecEnvironments ==
    {NoEnvironment} \cup
    {[set |-> TRUE, value |-> v] : v \in StringsUpTo(ValueAlphabet, MaxValueLen)}

\* The chain is not running while a collection is encoded and decoded
Idle ==
    /\ maximumRequests = 1
    /\ listen = TcpDescription
    /\ proc = [p \in Procs |-> NewProcess]
    /\ conn = [c \in Conns |-> NoConn]

\* A collection whose descriptions hold no separator, to be encoded, or an
\* environment holding any value, or none, to be decoded
InitCodec ==
    /\ Idle
    /\ svc = NoService
    /\ \/ \E c \in CodecCollections :
             codec = [NoCodec EXCEPT !.step = "collection",
                                     !.origin = "collection",
                                     !.collection = c]
       \/ \E e \in CodecEnvironments :
             codec = [NoCodec EXCEPT !.step = "value", !.origin = "value",
                                     !.env = e]

\* collection.toEnvironment(), the value placed in an environment
Encode ==
    /\ codec.step = "collection"
    /\ codec' = [codec EXCEPT
                   !.step = "value",
                   !.env = [set |-> TRUE,
                            value |-> toEnvironment(codec.collection)]]
    /\ UNCHANGED <<maximumRequests, listen, proc, conn, svc>>

\* ListenersCollection.fromEnvironment(environment)
Decode ==
    /\ codec.step = "value"
    /\ codec' = [codec EXCEPT !.step = "decoded",
                              !.decoded = fromEnvironment(codec.env)]
    /\ UNCHANGED <<maximumRequests, listen, proc, conn, svc>>

NextCodec == Encode \/ Decode

SpecCodec == InitCodec /\ [][NextCodec]_vars

\* ------------------------------------------------------- listener services
\* A listener service on its own, built for any list of descriptions: the
\* Deferred of each endpoint's listen fires when the endpoint decides, in
\* any order.
RECURSIVE DistinctLists(_, _)
DistinctLists(choices, n) ==
    IF n = 0 THEN {<<>>}
    ELSE LET shorter == DistinctLists(choices, n - 1) IN
         shorter \cup {Append(l, d) : l \in {s \in shorter : Len(s) = n - 1},
                                      d \in choices}

DescriptionLists ==
    {l \in DistinctLists({TcpDescription, Tcp6Description, UnixDescription,
                          SslDescription}, MaxDescriptions) :
        /\ Len(l) >= 1
        /\ \A i, j \in 1..Len(l) : l[i] = l[j] => i = j}

\* The descriptors a predecessor hands over with the descriptions l
Inherited(l) == [i \in 1..Len(l) |-> [description |-> l[i], fileno |-> 2 + i]]

\* LivelyListenersService.__init__ / AdoptedListenersService.__init__
InitListeners ==
    /\ Idle
    /\ codec = NoCodec
    /\ \E l \in DescriptionLists :
          \/ svc = [NoService EXCEPT
                      !.service = [NewProcess EXCEPT !.status = "running",
                                                     !.kind = "lively",
                                                     !.descriptions = l],
                      !.configured = l]
          \/ svc = [NoService EXCEPT
                      !.service = [NewProcess EXCEPT
                                     !.status = "running",
                                     !.kind = "adopted",
                                     !.env = [set |-> TRUE,
                                              value |-> toEnvironment(Inherited(l))]],
                      !.configured = l]

\* startService: the Lively service starts its endpoint services, each of
\* which calls listen on its endpoint; the Adopted service adopts its
\* descriptors
StartService ==
    /\ ~svc.started
    /\ svc' = IF svc.service.kind = "lively"
              THEN [svc EXCEPT !.started = TRUE,
                               !.service.serviceRunning = TRUE,
                               !.pending = 1..Len(svc.configured)]
              ELSE [svc EXCEPT !.started = TRUE,
                               !.service = adoptedStartService(
                                   @, fromEnvironment(@.env).pairs)]
    /\ UNCHANGED <<maximumRequests, listen, proc, conn, codec>>

\* _NotifyListenEndpointWrapper._notify, then recordListener: the listen of
\* the endpoint of description i has fired with its port
ListenCompletes(i) ==
    /\ i \in svc.pending
    /\ svc' = [svc EXCEPT
                 !.pending = @ \ {i},
                 !.service.cloexec = @ \cup {NewFd(svc.service)},
                 !.service.listeners =
                     Append(@, [fd |-> NewFd(svc.service),
                                family |-> Classify(svc.configured[i]),
                                origin |-> "bound",
                                description |-> svc.configured[i],
                                closedBy |-> "none",
                                reading |-> TRUE])]
    /\ UNCHANGED <<maximumRequests, listen, proc, conn, codec>>

\* The handoff: a request that reaches the quota came in through a listener
\* of the service; render calls stopAccepting and respawn calls
\* toCollection
Handoff ==
    /\ svc.started
    /\ svc.service.status = "running"
    /\ Reading(svc.service)
    /\ ~svc.collection.called
    /\ LET stopped == stopAccepting(svc.service)
           collection == toCollection(stopped)
       IN svc' = [svc EXCEPT !.service = stopped,
                             !.collection = [called |-> TRUE,
                                             ok |-> collection.ok,
                                             pairs |-> collection.pairs]]
    /\ UNCHANGED <<maximumRequests, listen, proc, conn, codec>>

NextListeners ==
    \/ StartService
    \/ \E i \in 1..MaxDescriptions : ListenCompletes(i)
    \/ Handoff

SpecListeners == InitListeners /\ [][NextListeners]_vars

C2_StopOnlyWhenDrained ==
    [][\A p \in Procs :
          Len(proc'[p].reactorStops) > Len(proc[p].reactorStops) =>
             /\ proc'[p].stopping
             /\ proc'[p].inFlight = 0
             /\ InFlightConns(p)' = {}
             /\ \A i \in 1..Len(proc'[p].reactorStops) :
                   /\ proc'[p].reactorStops[i].stopping
                   /\ proc'[p].reactorStops[i].inFlight = 0]_vars

\* The reactor of a running process was stopped after it had two requests
C2_Witness ==
    \E p \in Procs :
        /\ Alive(p)
        /\ Len(proc[p].reactorStops) = 1
        /\ proc[p].requests = 2
        /\ proc[p].inFlight = 0

\* C3: stopAccepting is not called while requests 1..N-1 are rendered; it is
\* called in the render of request N, after that request was counted, so the
\* listeners no longer read once request N is rendered; and every request,
\* request N included, is forwarded to the wrapped resource.
C3_QuotaBoundary ==
    \A p \in Procs :
        /\ proc[p].requests < maximumRequests =>
              proc[p].stopAcceptingCalls = <<>>
        /\ proc[p].requests >= maximumRequests =>
              /\ Len(proc[p].stopAcceptingCalls) >= 1
              /\ proc[p].stopAcceptingCalls[1] = maximumRequests
              /\ ~Reading(proc[p])
        /\ proc[p].forwarded = proc[p].requests

\* With N = 2, request 2 has been rendered and forwarded
C3_Witness ==
    \E p \in Procs :
        /\ maximumRequests = 2
        /\ proc[p].requests = 2
        /\ proc[p].forwarded = 2
        /\ Len(proc[p].stopAcceptingCalls) = 1

\* C4 (as stated): _stopping is set if and only if the number of requests
\* counted is strictly greater than the configured maximum.
C4_StoppingIffAboveMaximum ==
    \A p \in Procs :
        proc[p].stopping <=> proc[p].requests > maximumRequests

\* C4 (amended): _stopping is set if and only if the number of requests
\* counted is at least the configured maximum (greater than maximum - 1).
C4_StoppingIffMaximumReached ==
    \A p \in Procs :
        proc[p].stopping <=> proc[p].requests >= maximumRequests

\* Exactly the configured maximum has been counted, and the gate is stopping
C4_Witness ==
    \E p \in Procs :
        /\ proc[p].requests = maximumRequests
        /\ proc[p].stopping
        /\ Alive(p)

\* C5: respawn runs, and subprocess.Popen is called, exactly once in a
\* process once the quota has been reached, and never before; further
\* requests rendered at or beyond the quota do not repeat it.
C5_HandoffOnce ==
    \A p \in Procs :
        /\ Len(proc[p].respawns) <= 1
        /\ Len(proc[p].popen) <= 1
        /\ proc[p].requests >= maximumRequests =>
              Len(proc[p].respawns) = 1 /\ Len(proc[p].popen) = 1
        /\ proc[p].requests < maximumRequests =>
              Len(proc[p].respawns) = 0 /\ Len(proc[p].popen) = 0

\* A request was rendered beyond the quota while the one that reached it
\* was still in flight
C5_Witness ==
    \E p \in Procs :
        /\ proc[p].requests > maximumRequests
        /\ proc[p].inFlight = 2
        /\ Len(proc[p].popen) = 1

\* C6: respawn captures the listeners only after stopAccepting was called
\* on them (the service is released and no listener reads), and from the
\* capture on no listener of the process reads again.
C6_StopAcceptingBeforeCapture ==
    /\ [](\A p \in Procs : \A i \in 1..Len(proc[p].respawns) :
             /\ proc[p].respawns[i].stopAcceptingCalls >= 1
             /\ proc[p].respawns[i].released
             /\ ~proc[p].respawns[i].reading)
    /\ [][\A p \in Procs :
             Len(proc[p].respawns) >= 1 => ~Reading(proc'[p])]_vars

\* A process captured its listeners and then rendered another request
C6_Witness ==
    \E p \in Procs :
        /\ Len(proc[p].popen) = 1
        /\ Len(proc[p].popen[1].pass_fds) = 1
        /\ proc[p].requests > proc[p].stopAcceptingCalls[1]
        /\ ~Reading(proc[p])

\* C7: at most one process of the chain is accepting at any time, and a
\* process that has called subprocess.Popen is not accepting.
C7_OneAccepting ==
    /\ Cardinality({p \in Procs : Accepting(p)}) <= 1
    /\ \A p \in Procs : Len(proc[p].popen) >= 1 => ~Accepting(p)

\* The successor accepts while its parent is still draining
C7_Witness ==
    \E p, q \in Procs :
        /\ p # q
        /\ Alive(p) /\ ~Accepting(p) /\ proc[p].inFlight > 0
        /\ Accepting(q) /\ proc[q].kind = "adopted"

\* C8: whenever reactor.stop is called, respawn has already run in that
\* process and has called subprocess.Popen.
C8_StopAfterRespawn ==
    \A p \in Procs : \A i \in 1..Len(proc[p].reactorStops) :
        /\ proc[p].reactorStops[i].respawns >= 1
        /\ proc[p].reactorStops[i].popen >= 1

\* The reactor was stopped in a process whose successor had been launched
C8_Witness ==
    \E p, q \in Procs :
        /\ Len(proc[p].reactorStops) >= 1
        /\ proc[p].popen[1].launched
        /\ proc[q].env.set /\ proc[q].env.value = proc[p].popen[1].env
        /\ proc[q].status # "unborn"

\* C9: inFlight is never negative and equals the number of requests render
\* has counted and whose finish has not fired (the connections of the
\* process with a request in progress), however the requests finish.
C9_InFlightAccounting ==
    \A p \in Procs :
        /\ proc[p].inFlight >= 0
        /\ proc[p].inFlight = Cardinality(InFlightConns(p))

\* Of two requests counted one has finished and one is in flight
C9_Witness ==
    \E p \in Procs :
        /\ proc[p].requests = 2
        /\ proc[p].inFlight = 1
        /\ Cardinality(InFlightConns(p)) = 1
        /\ \E c \in Conns : conn[c] = NoConn

\* C10: once the notification has fired (_stopping is set), no deferred is
\* left in _notifications and every deferred notifyFinish has returned,
\* before or after, has fired exactly once; no deferred fires twice.
C10_EverySubscriberNotified ==
    \A p \in Procs :
        /\ \A d \in 1..Len(proc[p].deferreds) : proc[p].deferreds[d].fired <= 1
        /\ proc[p].stopping =>
              /\ proc[p].notifications = <<>>
              /\ \A d \in 1..Len(proc[p].deferreds) :
                    proc[p].deferreds[d].fired = 1

\* A subscriber came after the notification had fired
C10_Witness ==
    \E p \in Procs : \E d \in 1..Len(proc[p].deferreds) :
        /\ proc[p].stopping
        /\ proc[p].deferreds[d].late
        /\ proc[p].deferreds[d].fired = 1

\* C11: decoding the value toEnvironment produces for a collection whose
\* descriptions hold neither separator gives the collection back, record for
\* record, the empty collection included.
C11_RoundTrip ==
    (codec.step = "decoded" /\ codec.origin = "collection") =>
        /\ codec.decoded.ok
        /\ codec.decoded.pairs = codec.collection

\* Two records, one of them with a descriptor of two digits, went round
C11_Witness ==
    /\ codec.step = "decoded"
    /\ codec.origin = "collection"
    /\ Len(codec.collection) = 2
    /\ codec.collection[1].fileno = 12
    /\ codec.collection[2].description = <<"a">>
    /\ Len(codec.decoded.pairs) = 2

\* A descriptor field that is a decimal integer: digits after at most one sign
DecimalInteger(s) ==
    /\ Len(Unsigned(s)) > 0
    /\ \A i \in 1..Len(Unsigned(s)) : IsDigit(Unsigned(s)[i])

\* A record without unit separator, or whose descriptor field is empty or is
\* not a decimal integer
MalformedRecord(record) ==
    LET fields == Partition(record, unitSeparator) IN
    \/ ~fields.found
    \/ fields.tail = <<>>
    \/ ~DecimalInteger(fields.tail)

\* C13: fromEnvironment fails on every non-empty value that holds a
\* malformed record.
C13_MalformedRejected ==
    (/\ codec.step = "decoded"
     /\ codec.origin = "value"
     /\ codec.env.set
     /\ codec.env.value # <<>>
     /\ \E i \in 1..Len(Split(codec.env.value, recordSeparator)) :
           MalformedRecord(Split(codec.env.value, recordSeparator)[i]))
        => ~codec.decoded.ok

\* C12: a process whose handoff variable is absent or empty decodes the
\* empty collection without error and binds fresh listeners; a process whose
\* variable holds a value adopts the descriptors and binds nothing.
C12_StartupChoice ==
    \A p \in Procs :
        proc[p].status \in {"running", "exited", "failed"} =>
            IF ~proc[p].env.set \/ proc[p].env.value = <<>>
            THEN /\ fromEnvironment(proc[p].env) = [ok |-> TRUE, pairs |-> <<>>]
                 /\ proc[p].kind = "lively"
                 /\ \A i \in 1..Len(proc[p].listeners) :
                       proc[p].listeners[i].origin = "bound"
            ELSE /\ proc[p].kind \in {"adopted", "none"}
                 /\ proc[p].kind = "none" => ~fromEnvironment(proc[p].env).ok
                 /\ \A i \in 1..Len(proc[p].listeners) :
                       proc[p].listeners[i].origin = "adopted"

\* The first process, its variable set but empty, bound a listener and its
\* successor adopted one
C12_Witness ==
    \E p, q \in Procs :
        /\ proc[p].env.set /\ proc[p].env.value = <<>>
        /\ proc[p].kind = "lively" /\ Len(proc[p].listeners) = 1
        /\ proc[q].env.value # <<>>
        /\ proc[q].kind = "adopted" /\ Len(proc[q].listeners) = 1

\* C14: a failed launch is not retried, and a process whose launch failed
\* does not exit with status 0.
C14_SpawnFailureFatal ==
    \A p \in Procs :
        (Len(proc[p].popen) >= 1 /\ ~proc[p].popen[1].launched) =>
            /\ Len(proc[p].popen) = 1
            /\ proc[p].status = "exited" => proc[p].exitCode # 0

\* A listener was handed off: its descriptor was passed to a successor that
\* was launched
HandedOff(s, i) ==
    \E k \in 1..Len(s.popen) :
        /\ s.popen[k].launched
        /\ \E j \in 1..Len(s.popen[k].pass_fds) :
              s.popen[k].pass_fds[j] = s.listeners[i].fd

\* C15: when a process has ended, each of its listeners has been closed by
\* its service or handed off to the successor, never both and never
\* neither; a released listener was not closed, and a listener never
\* released was closed by the service.
C15_ExclusiveDisposal ==
    \A p \in Procs :
        proc[p].status = "exited" =>
            \A i \in 1..Len(proc[p].listeners) :
                /\ (proc[p].listeners[i].closedBy = "service")
                      # HandedOff(proc[p], i)
                /\ proc[p].released =>
                      proc[p].listeners[i].closedBy = "none"
                /\ ~proc[p].released =>
                      proc[p].listeners[i].closedBy = "service"

\* C16: once a process is stopping it stays stopping, a released listener
\* service stays released, and no listener of a stopping process reads
\* again, whatever requests start and finish afterwards.
C16_ShutdownOneWay ==
    [][\A p \in Procs :
          /\ proc[p].stopping => proc'[p].stopping
          /\ proc[p].released => proc'[p].released
          /\ proc[p].stopping => ~Reading(proc'[p])]_vars

C16_Witness ==
    \E p \in Procs :
        /\ proc[p].stopping /\ proc[p].released /\ ~Reading(proc[p])
        /\ proc[p].requests > maximumRequests
        /\ Len(proc[p].reactorStops) >= 1
        /\ proc[p].inFlight = 0

\* C17: a stopping process whose inFlight is 0 keeps inFlight at 0, and
\* reactor.stop is requested at most once in a process.
C17_DrainedTerminal ==
    [][\A p \in Procs :
          /\ (proc[p].stopping /\ proc[p].inFlight = 0) =>
                proc'[p].inFlight = 0
          /\ Len(proc'[p].reactorStops) <= 1]_vars

Range(seq) == {seq[i] : i \in 1..Len(seq)}

\* C19: at every launch of a successor, the descriptors passed (pass_fds)
\* are the descriptors decoded from the handoff variable given to the
\* successor, which are the descriptors of the parent's listeners, and none
\* of them is flagged close-on-exec at the launch.
C19_HandoffConsistency ==
    \A p \in Procs :
        \A k \in 1..Len(proc[p].popen) :
            LET launch == proc[p].popen[k]
                decoded == fromEnvironment([set |-> TRUE, value |-> launch.env])
            IN /\ decoded.ok
               /\ Range(launch.pass_fds) =
                     {decoded.pairs[i].fileno : i \in 1..Len(decoded.pairs)}
               /\ Range(launch.pass_fds) =
                     {proc[p].listeners[i].fd : i \in 1..Len(proc[p].listeners)}
               /\ Range(launch.pass_fds) \cap launch.cloexec = {}

C19_Witness ==
    \E p, q \in Procs :
        /\ proc[p].kind = "lively" /\ proc[q].kind = "adopted"
        /\ Len(proc[p].popen) = 1 /\ proc[p].popen[1].launched
        /\ proc[p].popen[1].pass_fds = <<3>>
        /\ Len(proc[q].popen) = 1
        /\ proc[q].popen[1].pass_fds = <<4>>
        /\ proc[q].cloexec = {}

====
